---- MODULE Spec2Model ----
(***************************************************************************)
(* Model of grammar-analysis-demo: the span normalizer                     *)
(* (GrammarAnalyzer.format_extractions) and the two span renderers         *)
(* (create_colored_text, create_simple_html_visualization) of              *)
(* src/grammar_analyzer.py, driven the way src/app.py drives them.         *)
(*                                                                         *)
(* Python values are modelled as follows.                                  *)
(*   str            a sequence of one-character strings                    *)
(*   Optional[x]    <<>> for None, <<x>> for a present value               *)
(*   dict           a sequence of <<key, value>> pairs in insertion order  *)
(*   record keys    "类型" -> type, "文本" -> text, "属性" -> attributes,  *)
(*                  "位置" -> position, "开始" -> start, "结束" -> end     *)
(*   markup         a sequence of tokens; <<"raw", c>> is the character c  *)
(*                  written verbatim into the markup                       *)
(***************************************************************************)
EXTENDS Integers, Sequences, FiniteSets

VARIABLES pc, text, result, extractions, colored, simple, grouped, stats,
          env_key, secrets, api_key, secret_read, analyzer, action, calls,
          service_error, error, shown_error,
          viz_pc, temp_dir, files, output_path, content, save_error, failure,
          viz_error, html_content, rmtree

\* the state of the application around the analysis: the credential and
\* where it came from, the analyzer, the pressed button, the calls of the
\* extraction service, the failure of the analysis and the error message
\* on the page
appvars ==
    <<env_key, secrets, api_key, secret_read, analyzer, action, calls,
      service_error, error, shown_error>>

\* the state of generate_visualization: its position, the temporary
\* directory and the names in it, the path and content of the file to
\* visualize, the error of the save step, the exception that reached the
\* outer handler, the raised message, the returned markup and what became
\* of the call of shutil.rmtree
vizvars ==
    <<viz_pc, temp_dir, files, output_path, content, save_error, failure,
      viz_error, html_content, rmtree>>

vars ==
    <<pc, text, result, extractions, colored, simple, grouped, stats, appvars,
      vizvars>>

\* ---------------------------------------------------------------- bounds
\* longest source text
MaxLen == 3
\* most extractions the service returns for the offset-focused inputs
MaxSpans == 2
\* most entries of an attributes mapping
MaxAttrs == 3

\* ------------------------------------------------------- Python helpers
None == <<>>
Some(x) == <<x>>
IsNone(o) == Len(o) = 0
Val(o) == o[1]

Max(a, b) == IF a >= b THEN a ELSE b
Min(a, b) == IF a <= b THEN a ELSE b

\* an index of a Python slice, brought into 0..n
SliceIndex(i, n) == IF i < 0 THEN Max(i + n, 0) ELSE Min(i, n)

\* t[a:b]
Slice(t, a, b) ==
    LET lo == SliceIndex(a, Len(t))
        hi == SliceIndex(b, Len(t))
    IN  IF lo >= hi THEN <<>> ELSE SubSeq(t, lo + 1, hi)

\* key in d
HasKey(d, k) == \E i \in 1..Len(d) : d[i][1] = k

\* d[key], for a key that is present
Get(d, k) == d[CHOOSE i \in 1..Len(d) : d[i][1] = k][2]

\* ----------------------------------------------------------- the inputs
\* the characters of the source texts; some are markup-significant
Alphabet == <<"a", "<", "b", "&">>
MarkupChars == {"<", ">", "&", "\""}
CharAt(i) == Alphabet[((i - 1) % Len(Alphabet)) + 1]
Texts == {[i \in 1..n |-> CharAt(i)] : n \in 0..MaxLen}

\* the class tag and literal text of the i-th extraction of the
\* offset-focused inputs: two known classes, then unknown ones
ClassAt(i) == IF i = 1 THEN "verb" ELSE IF i = 2 THEN "phrasal_verb" ELSE "note"
WordAt(i) == IF i = 1 THEN "looked" ELSE IF i = 2 THEN "looked up" ELSE "word"

\* lx.data.CharInterval: both positions are optional
CharIntervals ==
    {[start_pos |-> Some(s), end_pos |-> Some(e)] :
        s \in (0 - 1)..MaxLen, e \in 0..(MaxLen + 1)}
    \cup {[start_pos |-> None, end_pos |-> Some(MaxLen)],
          [start_pos |-> Some(0), end_pos |-> None]}

OptCharIntervals == {None} \cup {Some(ci) : ci \in CharIntervals}

Extraction(cls, txt, attrs, ci) ==
    [extraction_class |-> cls, extraction_text |-> txt,
     attributes |-> attrs, char_interval |-> ci]

\* a document of n extractions that differ in their offsets f[1], ..., f[n]
OffsetDoc(t, n, f) ==
    [text |-> t,
     extractions |-> [i \in 1..n |->
         Extraction(ClassAt(i), WordAt(i), Some(<<>>), f[i])]]

\* attribute mappings: sequences of entries with pairwise different keys
AttrEntries ==
    {<<"role", "predicate">>, <<"meaning", "search">>, <<"level", "B1">>,
     <<"type", "verb">>, <<"type", "noun_phrase">>}

AttrDicts ==
    UNION {
        {d \in [1..n -> AttrEntries] :
            \A i, j \in 1..n : i # j => d[i][1] # d[j][1]}
        : n \in 0..MaxAttrs}

\* documents with one valid extraction, differing in class and attributes
AttrDocs ==
    {[text |-> <<"a", "<">>,
      extractions |-> <<Extraction(c, "a", a, Some([start_pos |-> Some(0), end_pos |-> Some(1)]))>>] :
        c \in {"verb", "note"}, a \in {None} \cup {Some(d) : d \in AttrDicts}}

\* extractions for grouping and statistics: classes repeat, attributes may
\* be missing or carry a level, offsets may be missing, valid, overlapping,
\* reversed or without positions
ReportExtractions ==
    {Extraction(c, "looked", a, ci) :
        c \in {"verb", "note"},
        a \in {None, Some(<<>>), Some(<<<<"level", "B1">>>>)},
        ci \in {None,
                Some([start_pos |-> Some(0), end_pos |-> Some(1)]),
                Some([start_pos |-> Some(0), end_pos |-> Some(2)]),
                Some([start_pos |-> Some(2), end_pos |-> Some(1)]),
                Some([start_pos |-> None, end_pos |-> None])}}

\* the values of the environment variable: absent, empty, a key
EnvValues == {None, Some(""), Some("k")}

\* the secret store: no secrets file, a file without the key, a file with
\* an empty value or with a key
NoSecretsFile == [file |-> FALSE, entries |-> <<>>]

SecretStores ==
    {NoSecretsFile} \cup
    {[file |-> TRUE, entries |-> d] :
        d \in {<<>>, <<<<"LANGEXTRACT_API_KEY", "">>>>,
                     <<<<"LANGEXTRACT_API_KEY", "s">>>>}}

\* the messages of the errors the extraction service raises
ServiceErrors == {"timeout", "quota exceeded"}

\* ------------------------------------------------------------ the analyzer
\* the truth value of an optional string: None and "" are false
Truthy(x) == ~IsNone(x) /\ Val(x) # ""

\* a or b
Or(a, b) == IF Truthy(a) THEN a ELSE b

\* GrammarAnalyzer(api_key) in an environment env: raises ValueError when
\* neither gives a key
GrammarAnalyzer(key, env) ==
    IF Truthy(Or(key, env))
    THEN [error |-> FALSE, api_key |-> Or(key, env)]
    ELSE [error |-> TRUE, api_key |-> None]

NoAnalyzer == [error |-> FALSE, api_key |-> None]

\* AnalyzeFailure without the message of the original error
AnalyzeFailureGeneric(message) == <<"analysis failed">>

\* the message of the exception analyze_grammar raises for an error of the
\* service: the prefix, written "analysis failed: ", and the original message
AnalyzeFailure(message) == <<"analysis failed: ", message>>

\* the errors of the library's save step, of the manual write and of the
\* library's renderer
SaveErrors == {"save failed"}
WriteErrors == {"not serializable"}
VisualizeErrors == {"render failed"}

\* the names lx.io.save_annotated_documents may write: two of the names the
\* function looks for, and one it does not look for
SavedNames == {"grammar_analysis.jsonl", "annotated_documents.jsonl", "data.jsonl"}

\* ------------------------------------------------------------ normalizer
\* FormatExtraction with the end offset of generate_visualization's
\* fallback, the length of the literal text, for a missing interval
FormatExtractionTextLength(extraction) ==
    LET start_pos == IF ~IsNone(extraction.char_interval)
                     THEN Val(extraction.char_interval).start_pos ELSE Some(0)
        end_pos   == IF ~IsNone(extraction.char_interval)
                     THEN Val(extraction.char_interval).end_pos ELSE Some(1)
    IN  [type |-> extraction.extraction_class,
         text |-> extraction.extraction_text,
         attributes |-> extraction.attributes,
         position |-> [start |-> start_pos, end |-> end_pos]]

\* GrammarAnalyzer.format_extractions, one extraction
FormatExtraction(extraction) ==
    LET start_pos == IF ~IsNone(extraction.char_interval)
                     THEN Val(extraction.char_interval).start_pos ELSE Some(0)
        end_pos   == IF ~IsNone(extraction.char_interval)
                     THEN Val(extraction.char_interval).end_pos ELSE Some(0)
    IN  [type |-> extraction.extraction_class,
         text |-> extraction.extraction_text,
         attributes |-> extraction.attributes,
         position |-> [start |-> start_pos, end |-> end_pos]]

\* GrammarAnalyzer.format_extractions
format_extractions(res) ==
    [i \in 1..Len(res.extractions) |-> FormatExtraction(res.extractions[i])]

\* ------------------------------------------------- shared by the renderers
\* InsertByStart putting x in front of the elements with an equal key
InsertByStartUnstable(s, x) ==
    LET k == Cardinality({i \in 1..Len(s) :
                 Val(s[i].position.start) < Val(x.position.start)})
    IN  SubSeq(s, 1, k) \o <<x>> \o SubSeq(s, k + 1, Len(s))

\* sorted(valid_extractions, key=lambda x: x["位置"]["开始"]): Python's sort
\* is stable; InsertByStart puts x behind every element whose key is <= its own
InsertByStart(s, x) ==
    LET k == Cardinality({i \in 1..Len(s) :
                 Val(s[i].position.start) <= Val(x.position.start)})
    IN  SubSeq(s, 1, k) \o <<x>> \o SubSeq(s, k + 1, Len(s))

RECURSIVE sorted(_)
sorted(s) ==
    IF s = <<>> THEN <<>>
    ELSE InsertByStart(sorted(SubSeq(s, 1, Len(s) - 1)), s[Len(s)])

\* ListAfterSorted for a renderer that filters and sorts its argument in place
ListSortedInPlace(es) ==
    LET Valid(e) == /\ ~IsNone(e.position.start)
                    /\ ~IsNone(e.position.end)
                    /\ Val(e.position.start) >= 0
                    /\ Val(e.position.end) > Val(e.position.start)
    IN  sorted(SelectSeq(es, Valid))

\* the caller's list after a renderer ran: the filter builds a new list and
\* sorted() returns a new list, so the argument is as it was
ListAfterSorted(es) == es

\* an unhighlighted run text[from:to]
PlainPart(t, from, to) ==
    [kind |-> "plain", from |-> from, to |-> to, body |-> Slice(t, from, to),
     type |-> "", bg |-> "", border |-> "", tooltip |-> <<>>, index |-> 0 - 1]

\* the characters of a string, written verbatim into the markup
RawTokens(s) == [i \in 1..Len(s) |-> <<"raw", s[i]>>]

RECURSIVE Concat(_)
Concat(ss) == IF ss = <<>> THEN <<>> ELSE Head(ss) \o Concat(Tail(ss))

\* --------------------------------------------------- create_colored_text
\* the default color_map of create_colored_text and its fallback
ColoredColor(cls) ==
    CASE cls = "subject" -> "#FF6B6B"
      [] cls = "verb" -> "#4ECDC4"
      [] cls = "object" -> "#45B7D1"
      [] cls = "direct_object" -> "#45B7D1"
      [] cls = "indirect_object" -> "#95D5B2"
      [] cls = "adverbial" -> "#FFA07A"
      [] cls = "phrasal_verb" -> "#98D8C8"
      [] cls = "key_word" -> "#F7DC6F"
      [] cls = "idiom" -> "#DDA15E"
      [] cls = "attributive" -> "#BC6C25"
      [] cls = "complement" -> "#A8DADC"
      [] OTHER -> "#CCCCCC"

\* the first filter of create_colored_text
ColoredValid(e) ==
    /\ ~IsNone(e.position.start)
    /\ ~IsNone(e.position.end)
    /\ Val(e.position.start) >= 0
    /\ Val(e.position.end) > Val(e.position.start)

\* ColoredSkip without its check of the end offset
ColoredSkipStartOnly(t, start, end) ==
    start >= Len(t) \/ start >= end

\* the range check inside the loop of create_colored_text
ColoredSkip(t, start, end) ==
    start >= Len(t) \/ end > Len(t) \/ start >= end

\* ColoredAttributesShown for a test against None only
ColoredAttributesShownUnlessNone(attrs) == ~IsNone(attrs)

\* if extraction['属性']: the mapping is present and not empty
ColoredAttributesShown(attrs) == ~IsNone(attrs) /\ Len(Val(attrs)) > 0

\* ColoredTooltip leaving out a type attribute that repeats the class tag
ColoredTooltipNoRedundantType(e) ==
    LET attrs == e.attributes
        truthy == ~IsNone(attrs) /\ Len(Val(attrs)) > 0
        IsShown(entry) == ~(entry[1] = "type" /\ entry[2] = e.type)
        shown == IF truthy THEN SelectSeq(Val(attrs), IsShown) ELSE <<>>
    IN  <<<<"strong", e.type>>>> \o
        (IF truthy
         THEN <<<<"hr">>>> \o
              [i \in 1..Len(shown) |-> <<"div", shown[i][1], shown[i][2]>>]
         ELSE <<>>)

\* tooltip_lines: the class, then a rule and one line per attribute when the
\* attributes mapping is present and not empty
ColoredTooltip(e) ==
    LET attrs == e.attributes
        truthy == ColoredAttributesShown(attrs)
    IN  <<<<"strong", e.type>>>> \o
        (IF truthy
         THEN <<<<"hr">>>> \o
              [i \in 1..Len(Val(attrs)) |-> <<"div", Val(attrs)[i][1], Val(attrs)[i][2]>>]
         ELSE <<>>)

\* the highlighted run of one extraction
ColoredPart(t, e) ==
    [kind |-> "span",
     from |-> Val(e.position.start), to |-> Val(e.position.end),
     body |-> Slice(t, Val(e.position.start), Val(e.position.end)),
     type |-> e.type, bg |-> ColoredColor(e.type), border |-> "",
     tooltip |-> ColoredTooltip(e), index |-> 0 - 1]

\* ColoredGap emitting the slice also when it is empty
ColoredGapAlways(t, last_pos, start) ==
    IF start >= last_pos THEN <<PlainPart(t, last_pos, start)>> ELSE <<>>

\* the unmarked text in front of a highlighted run: if start > last_pos
ColoredGap(t, last_pos, start) ==
    IF start > last_pos THEN <<PlainPart(t, last_pos, start)>> ELSE <<>>

\* what last_pos is after a highlighted run in create_colored_text
ColoredAdvance(last_pos, end) == Max(last_pos, end)

\* the loop of create_colored_text over sorted_extractions
RECURSIVE ColoredWalk(_, _, _, _)
ColoredWalk(t, es, html_parts, last_pos) ==
    IF es = <<>> THEN [html_parts |-> html_parts, last_pos |-> last_pos]
    ELSE
        LET extraction == Head(es)
            start == Val(extraction.position.start)
            end == Val(extraction.position.end)
        IN  IF ColoredSkip(t, start, end)
            THEN ColoredWalk(t, Tail(es), html_parts, last_pos)
            ELSE
                ColoredWalk(t, Tail(es),
                    html_parts \o ColoredGap(t, last_pos, start)
                               \o <<ColoredPart(t, extraction)>>,
                    ColoredAdvance(last_pos, end))

\* what ''.join writes for one element of html_parts
ColoredTokens(p) ==
    IF p.kind = "plain" THEN RawTokens(p.body)
    ELSE <<<<"span", p.bg>>>> \o RawTokens(p.body) \o <<<<"tooltip">>>>
         \o p.tooltip \o <<<<"/tooltip">>, <<"/span">>>>

\* create_colored_text(text, extractions): html_parts and the returned string
create_colored_text(t, es) ==
    LET valid_extractions == SelectSeq(es, ColoredValid)
    IN  IF valid_extractions = <<>>
        THEN [html_parts |-> <<>>, html |-> RawTokens(t)]
        ELSE
            LET walk == ColoredWalk(t, sorted(valid_extractions), <<>>, 0)
                parts == walk.html_parts \o
                         (IF walk.last_pos < Len(t)
                          THEN <<PlainPart(t, walk.last_pos, Len(t))>> ELSE <<>>)
            IN  [html_parts |-> parts,
                 html |-> Concat([i \in 1..Len(parts) |-> ColoredTokens(parts[i])])]

\* -------------------------------------- create_simple_html_visualization
\* the classes of color_map in create_simple_html_visualization
SimpleKnown ==
    {"subject", "verb", "object", "direct_object", "indirect_object",
     "adverbial", "phrasal_verb", "key_word", "idiom", "attributive",
     "complement"}

\* color_map.get(extraction_type, fallback): background and border
SimpleColors(cls) ==
    CASE cls = "subject" -> [bg |-> "#FFE5E5", border |-> "#FF6B6B"]
      [] cls = "verb" -> [bg |-> "#E5F9F9", border |-> "#4ECDC4"]
      [] cls = "object" -> [bg |-> "#E5F0FF", border |-> "#45B7D1"]
      [] cls = "direct_object" -> [bg |-> "#E5F0FF", border |-> "#45B7D1"]
      [] cls = "indirect_object" -> [bg |-> "#E8F5E9", border |-> "#95D5B2"]
      [] cls = "adverbial" -> [bg |-> "#FFF3E0", border |-> "#FFA07A"]
      [] cls = "phrasal_verb" -> [bg |-> "#E8F5E9", border |-> "#98D8C8"]
      [] cls = "key_word" -> [bg |-> "#FFF9E6", border |-> "#F7DC6F"]
      [] cls = "idiom" -> [bg |-> "#FFEEE5", border |-> "#DDA15E"]
      [] cls = "attributive" -> [bg |-> "#F5E6D3", border |-> "#BC6C25"]
      [] cls = "complement" -> [bg |-> "#E0F7FA", border |-> "#A8DADC"]
      [] OTHER -> [bg |-> "#e9ecef", border |-> "#adb5bd"]

\* the filter of create_simple_html_visualization
SimpleValid(t, e) ==
    /\ ~IsNone(e.position.start)
    /\ ~IsNone(e.position.end)
    /\ 0 <= Val(e.position.start)
    /\ Val(e.position.start) < Val(e.position.end)
    /\ Val(e.position.end) <= Len(t)

\* SimpleTypeLine without the comparison with the class tag
SimpleTypeLineAlways(attrs, extraction_type) ==
    HasKey(attrs, "type")

\* whether the tooltip gets a type line
SimpleTypeLine(attrs, extraction_type) ==
    HasKey(attrs, "type") /\ Get(attrs, "type") # extraction_type

\* tooltip_parts, later joined with " | "; the three labels stand for the
\* labels of the role, meaning and type lines
SimpleTooltip(e) ==
    LET attrs == Val(e.attributes)
    IN  <<<<"class", e.type>>>>
        \o (IF HasKey(attrs, "role")
            THEN <<<<"role-line", Get(attrs, "role")>>>> ELSE <<>>)
        \o (IF HasKey(attrs, "meaning")
            THEN <<<<"meaning-line", Get(attrs, "meaning")>>>> ELSE <<>>)
        \o (IF SimpleTypeLine(attrs, e.type)
            THEN <<<<"type-line", Get(attrs, "type")>>>> ELSE <<>>)

\* the highlighted run of the i-th sorted extraction
SimplePart(t, e, i) ==
    [kind |-> "span",
     from |-> Val(e.position.start), to |-> Val(e.position.end),
     body |-> Slice(t, Val(e.position.start), Val(e.position.end)),
     type |-> e.type, bg |-> SimpleColors(e.type).bg,
     border |-> SimpleColors(e.type).border,
     tooltip |-> SimpleTooltip(e), index |-> i]

\* what last_pos is after a highlighted run
SimpleAdvance(last_pos, end) == end

\* the loop of create_simple_html_visualization over sorted_extractions,
\* from its i-th element on (i counts from 0 as enumerate does)
RECURSIVE SimpleWalk(_, _, _, _, _)
SimpleWalk(t, es, i, html_parts, last_pos) ==
    IF i >= Len(es) THEN [html_parts |-> html_parts, last_pos |-> last_pos]
    ELSE
        LET extraction == es[i + 1]
            start == Val(extraction.position.start)
            end == Val(extraction.position.end)
            gap == IF start > last_pos
                   THEN <<PlainPart(t, last_pos, start)>> ELSE <<>>
        IN  SimpleWalk(t, es, i + 1,
                html_parts \o gap \o <<SimplePart(t, extraction, i)>>,
                SimpleAdvance(last_pos, end))

\* the text-container of create_simple_html_visualization
SimpleContainer(t, valid_extractions) ==
    IF valid_extractions # <<>>
    THEN LET walk == SimpleWalk(t, sorted(valid_extractions), 0, <<>>, 0)
         IN  walk.html_parts \o
             (IF walk.last_pos < Len(t)
              THEN <<PlainPart(t, walk.last_pos, Len(t))>> ELSE <<>>)
    ELSE <<PlainPart(t, 0, Len(t))>>

\* the detail cards, one per sorted valid extraction
SimpleDetails(valid_extractions) ==
    LET es == sorted(valid_extractions)
    IN  [i \in 1..Len(es) |->
            [index |-> i - 1, type |-> es[i].type,
             border |-> SimpleColors(es[i].type).border,
             text |-> es[i].text, attributes |-> es[i].attributes]]

\* used_types, restricted to the classes that get a legend entry
LegendTypes(es) == {es[i].type : i \in 1..Len(es)} \cap SimpleKnown

\* the orders in which a set can be iterated
Orders(S) ==
    {o \in [1..Cardinality(S) -> S] :
        \A i, j \in 1..Cardinality(S) : i # j => o[i] # o[j]}

\* 'role' in attrs raises TypeError when attrs is None
SimpleRaises(t, es) ==
    \E i \in 1..Len(es) : SimpleValid(t, es[i]) /\ IsNone(es[i].attributes)

\* create_simple_html_visualization(text, extractions), with the legend
\* written in the order in which the set used_types was iterated
create_simple_html_visualization(t, es, order) ==
    LET IsValid(e) == SimpleValid(t, e)
        valid_extractions == SelectSeq(es, IsValid)
    IN  IF SimpleRaises(t, es)
        THEN [error |-> TRUE, legend |-> <<>>, container |-> <<>>, details |-> <<>>]
        ELSE [error |-> FALSE,
              legend |-> order,
              container |-> SimpleContainer(t, valid_extractions),
              details |-> SimpleDetails(valid_extractions)]

\* ------------------------------------------------ format_result_for_display
\* group_by: "type" stands for the class selector, "level" for the
\* difficulty selector, "other" for any other value; the bucket "unknown"
\* stands for the default of a missing level, "all" for the single bucket
GroupBys == {"type", "level", "other"}

\* extraction["属性"].get("level", default) raises when the attributes are None
GroupRaises(es, group_by) ==
    group_by = "level" /\ \E i \in 1..Len(es) : IsNone(es[i].attributes)

\* the key of one extraction
GroupKey(extraction, group_by) ==
    IF group_by = "type" THEN extraction.type
    ELSE IF group_by = "level"
         THEN IF HasKey(Val(extraction.attributes), "level")
              THEN Get(Val(extraction.attributes), "level") ELSE "unknown"
         ELSE "all"

\* GroupAdd putting the extraction in front of its group
GroupAddInFront(g, key, extraction) ==
    IF \E k \in 1..Len(g) : g[k].key = key
    THEN [k \in 1..Len(g) |->
            IF g[k].key = key
            THEN [key |-> key, items |-> <<extraction>> \o g[k].items]
            ELSE g[k]]
    ELSE Append(g, [key |-> key, items |-> <<extraction>>])

\* if key not in grouped: grouped[key] = []; grouped[key].append(extraction)
GroupAdd(g, key, extraction) ==
    IF \E k \in 1..Len(g) : g[k].key = key
    THEN [k \in 1..Len(g) |->
            IF g[k].key = key
            THEN [key |-> key, items |-> Append(g[k].items, extraction)]
            ELSE g[k]]
    ELSE Append(g, [key |-> key, items |-> <<extraction>>])

\* the loop of format_result_for_display over the first n extractions
RECURSIVE GroupWalk(_, _, _)
GroupWalk(es, n, group_by) ==
    IF n = 0 THEN <<>>
    ELSE GroupAdd(GroupWalk(es, n - 1, group_by),
                  GroupKey(es[n], group_by), es[n])

\* format_result_for_display(extractions, group_by): the mapping as the
\* sequence of its entries in insertion order
format_result_for_display(es, group_by) ==
    IF GroupRaises(es, group_by)
    THEN [by |-> group_by, error |-> TRUE, groups |-> <<>>]
    ELSE [by |-> group_by, error |-> FALSE,
          groups |-> GroupWalk(es, Len(es), group_by)]

\* ------------------------------------------------------------ get_statistics
\* type_counts[class] = type_counts.get(class, 0) + 1
CountAdd(type_counts, cls) ==
    IF HasKey(type_counts, cls)
    THEN [k \in 1..Len(type_counts) |->
            IF type_counts[k][1] = cls
            THEN <<cls, type_counts[k][2] + 1>> ELSE type_counts[k]]
    ELSE Append(type_counts, <<cls, 1>>)

\* the counting loop over the first n extractions
RECURSIVE CountWalk(_, _)
CountWalk(es, n) ==
    IF n = 0 THEN <<>>
    ELSE CountAdd(CountWalk(es, n - 1), es[n].extraction_class)

\* start and end as the coverage loop reads them: 0 without an interval
StatsStart(e) ==
    IF IsNone(e.char_interval) THEN Some(0) ELSE Val(e.char_interval).start_pos

StatsEnd(e) ==
    IF IsNone(e.char_interval) THEN Some(0) ELSE Val(e.char_interval).end_pos

\* end - start raises when a position of an interval is None
StatsRaises(es) ==
    \E i \in 1..Len(es) : IsNone(StatsStart(es[i])) \/ IsNone(StatsEnd(es[i]))

\* TotalChars counting every position once
TotalCharsDeduplicated(es, n) ==
    Cardinality(UNION {Val(StatsStart(es[i]))..(Val(StatsEnd(es[i])) - 1) :
                       i \in 1..n})

\* total_chars += (end - start) over the first n extractions
RECURSIVE TotalChars(_, _)
TotalChars(es, n) ==
    IF n = 0 THEN 0
    ELSE TotalChars(es, n - 1) + (Val(StatsEnd(es[n])) - Val(StatsStart(es[n])))

Abs(x) == IF x < 0 THEN 0 - x ELSE x

\* the decimal digits of a natural number
DigitChar(d) == <<"0", "1", "2", "3", "4", "5", "6", "7", "8", "9">>[d + 1]

RECURSIVE Digits(_)
Digits(n) ==
    IF n < 10 THEN <<DigitChar(n)>>
    ELSE Append(Digits(n \div 10), DigitChar(n % 10))

\* |total| / length * 100 in tenths, rounded to the nearest, ties to even
Tenths(total, length) ==
    LET n == Abs(total) * 1000
        q == n \div length
        r == n % length
    IN  IF 2 * r > length THEN q + 1
        ELSE IF 2 * r = length THEN q + (q % 2)
        ELSE q

\* f"{total_chars / len(text) * 100:.1f}%"
FormatCoverage(total, length) ==
    LET t == Tenths(total, length)
    IN  (IF total < 0 THEN <<"-">> ELSE <<>>)
        \o Digits(t \div 10) \o <<".", DigitChar(t % 10), "%">>

\* the coverage string, "0%" for a text of length zero
Coverage(total, length) ==
    IF length > 0 THEN FormatCoverage(total, length) ELSE <<"0", "%">>

\* get_statistics(result); total_chars is the local of that name
get_statistics(res) ==
    IF StatsRaises(res.extractions)
    THEN [error |-> TRUE, total |-> 0, type_counts |-> <<>>, length |-> 0,
          total_chars |-> 0, coverage |-> <<>>]
    ELSE LET total_chars == TotalChars(res.extractions, Len(res.extractions))
         IN  [error |-> FALSE,
              total |-> Len(res.extractions),
              type_counts |-> CountWalk(res.extractions, Len(res.extractions)),
              length |-> Len(res.text),
              total_chars |-> total_chars,
              coverage |-> Coverage(total_chars, Len(res.text))]

\* ------------------------------------------------ generate_visualization
\* len(extraction_text) of the literal texts of the inputs
TextLength(extraction_text) ==
    CASE extraction_text = "looked" -> 6
      [] extraction_text = "looked up" -> 9
      [] extraction_text = "word" -> 4
      [] OTHER -> 1

\* one extraction of the manually built document: offsets 0 and the length
\* of the literal text for a missing interval
ManualExtraction(e) ==
    [extraction_class |-> e.extraction_class,
     extraction_text |-> e.extraction_text,
     attributes |-> e.attributes,
     char_interval |->
        [start_pos |-> IF ~IsNone(e.char_interval)
                       THEN Val(e.char_interval).start_pos ELSE Some(0),
         end_pos |-> IF ~IsNone(e.char_interval)
                     THEN Val(e.char_interval).end_pos
                     ELSE Some(TextLength(e.extraction_text))]]

\* doc_dict, the manually built document
doc_dict(res) ==
    [text |-> res.text,
     extractions |-> [i \in 1..Len(res.extractions) |->
                        ManualExtraction(res.extractions[i])]]

\* the content of the file to visualize: nothing, what the library saved or
\* the manually built document
NoContent == [by |-> "none", doc |-> [text |-> <<>>, extractions |-> <<>>]]
EmptyContent == [by |-> "empty", doc |-> [text |-> <<>>, extractions |-> <<>>]]
LibraryContent(res) == [by |-> "library", doc |-> res]
ManualContent(res) == [by |-> "manual", doc |-> doc_dict(res)]

\* the names possible_files looks for, in that order
PossibleFiles ==
    <<"grammar_analysis.jsonl", "grammar_analysis.jsonl",
      "annotated_documents.jsonl">>

\* the first of possible_files that exists, None without one
FoundPath(names) ==
    IF \E i \in 1..Len(PossibleFiles) : PossibleFiles[i] \in names
    THEN Some(PossibleFiles[CHOOSE i \in 1..Len(PossibleFiles) :
                /\ PossibleFiles[i] \in names
                /\ \A j \in 1..(i - 1) : PossibleFiles[j] \notin names])
    ELSE None

NoVizError == [prefix |-> "", message |-> "", listing |-> None]

\* FailureMessage without the listing of the directory
FailureMessageWithoutListing(message, exists, names) ==
    [prefix |-> "visualization failed: ", message |-> message,
     listing |-> None]

\* error_msg: the prefix, written "visualization failed: ", the message of
\* the caught exception, and the listing of the temporary directory when
\* that exists
FailureMessage(message, exists, names) ==
    [prefix |-> "visualization failed: ", message |-> message,
     listing |-> IF exists THEN Some(names) ELSE None]

\* ------------------------------------------------------------ the program
NoResult == [text |-> <<>>, extractions |-> <<>>]
NoColored == [html_parts |-> <<>>, html |-> <<>>]
NoSimple == [error |-> FALSE, legend |-> <<>>, container |-> <<>>, details |-> <<>>]
NoGrouped == [by |-> "", error |-> FALSE, groups |-> <<>>]
NoStats ==
    [error |-> FALSE, total |-> 0, type_counts |-> <<>>, length |-> 0,
     total_chars |-> 0, coverage |-> <<>>]

Init ==
    /\ pc = "idle"
    /\ text = <<>>
    /\ result = NoResult
    /\ extractions = <<>>
    /\ colored = NoColored
    /\ simple = NoSimple
    /\ grouped = NoGrouped
    /\ stats = NoStats
    /\ env_key = Some("k")
    /\ secrets = NoSecretsFile
    /\ api_key = Some("k")
    /\ secret_read = FALSE
    /\ analyzer = GrammarAnalyzer(Some("k"), Some("k"))
    /\ action = None
    /\ calls = 0
    /\ service_error = None
    /\ error = <<>>
    /\ shown_error = <<>>
    /\ viz_pc = "idle"
    /\ temp_dir = "none"
    /\ files = {}
    /\ output_path = None
    /\ content = NoContent
    /\ save_error = None
    /\ failure = None
    /\ viz_error = NoVizError
    /\ html_content = None
    /\ rmtree = "not called"

\* app.py: the analysis block calls analyzer.analyze_grammar, which returns
\* the service's document
AnalyzeGrammar ==
    /\ pc = "idle"
    /\ \/ \E t \in Texts, n \in 0..MaxSpans :
            \E f \in [1..n -> OptCharIntervals] :
                /\ text' = t
                /\ result' = OffsetDoc(t, n, f)
       \/ \E doc \in AttrDocs :
            /\ text' = doc.text
            /\ result' = doc
    /\ pc' = "analyzed"
    /\ UNCHANGED <<extractions, colored, simple, grouped, stats>>
    /\ UNCHANGED appvars
    /\ UNCHANGED vizvars

\* app.py: extractions = analyzer.format_extractions(result)
FormatExtractions ==
    /\ pc = "analyzed"
    /\ extractions' = format_extractions(result)
    /\ pc' = "formatted"
    /\ UNCHANGED <<text, result, colored, simple, grouped, stats>>
    /\ UNCHANGED appvars
    /\ UNCHANGED vizvars

\* app.py: colored_html = create_colored_text(user_text, extractions)
CreateColoredText ==
    /\ pc = "formatted"
    /\ colored' = create_colored_text(text, extractions)
    /\ extractions' = ListAfterSorted(extractions)
    /\ pc' = "colored"
    /\ UNCHANGED <<text, result, simple, grouped, stats>>
    /\ UNCHANGED appvars
    /\ UNCHANGED vizvars

\* create_simple_html_visualization(text, extractions); the set of classes
\* is iterated in an order the caller does not control
CreateSimpleHtmlVisualization ==
    /\ pc = "formatted"
    /\ \E order \in Orders(LegendTypes(extractions)) :
        simple' = create_simple_html_visualization(text, extractions, order)
    /\ extractions' = ListAfterSorted(extractions)
    /\ pc' = "visualized"
    /\ UNCHANGED <<text, result, colored, grouped, stats>>
    /\ UNCHANGED appvars
    /\ UNCHANGED vizvars

Next ==
    \/ AnalyzeGrammar
    \/ FormatExtractions
    \/ CreateColoredText
    \/ CreateSimpleHtmlVisualization

Spec == Init /\ [][Next]_vars

\* ------------------------------------------- generate_visualization runs
\* generate_visualization(result) is called; tempfile.mkdtemp makes the
\* directory or raises
CallGenerateVisualization ==
    /\ viz_pc = "idle"
    /\ \E n \in 0..1 : \E f \in [1..n -> ReportExtractions] :
        result' = [text |-> <<"a", "<">>, extractions |-> f]
    /\ \/ /\ temp_dir' = "exists"
          /\ viz_pc' = "saving"
          /\ UNCHANGED failure
       \/ /\ temp_dir' = "none"
          /\ failure' = Some("no space")
          /\ viz_pc' = "handling"
    /\ UNCHANGED <<pc, text, extractions, colored, simple, grouped, stats>>
    /\ UNCHANGED appvars
    /\ UNCHANGED <<files, output_path, content, save_error, viz_error,
                   html_content, rmtree>>

\* lines 89-113: the library's save step and the search for its file; the
\* step raises, or writes an empty or a filled file under some name
SaveAnnotatedDocuments ==
    /\ viz_pc = "saving"
    /\ \/ \E message \in SaveErrors :
            /\ save_error' = Some(message)
            /\ viz_pc' = "fallback"
            /\ UNCHANGED <<files, output_path, content>>
       \/ \E name \in SavedNames, c \in {EmptyContent, LibraryContent(result)} :
            /\ files' = {name}
            /\ IF IsNone(FoundPath(files'))
               THEN /\ save_error' = Some("file not found")
                    /\ viz_pc' = "fallback"
                    /\ UNCHANGED <<output_path, content>>
               ELSE /\ output_path' = FoundPath(files')
                    /\ content' = c
                    /\ viz_pc' = "visualizing"
                    /\ UNCHANGED save_error
       \/ /\ files' = {}
          /\ save_error' = Some("file not found")
          /\ viz_pc' = "fallback"
          /\ UNCHANGED <<output_path, content>>
    /\ UNCHANGED <<pc, text, result, extractions, colored, simple, grouped, stats>>
    /\ UNCHANGED appvars
    /\ UNCHANGED <<temp_dir, failure, viz_error, html_content, rmtree>>

\* lines 115-139: the manual write of doc_dict; it succeeds, or json.dump
\* raises with the file opened, or the directory is gone and open raises
WriteManually ==
    /\ viz_pc = "fallback"
    /\ output_path' = Some("grammar_analysis.jsonl")
    /\ \/ /\ files' = files \cup {"grammar_analysis.jsonl"}
          /\ content' = ManualContent(result)
          /\ viz_pc' = "visualizing"
          /\ UNCHANGED <<temp_dir, failure>>
       \/ \E message \in WriteErrors :
            /\ files' = files \cup {"grammar_analysis.jsonl"}
            /\ failure' = Some(message)
            /\ viz_pc' = "handling"
            /\ UNCHANGED <<temp_dir, content>>
       \/ /\ temp_dir' = "gone"
          /\ files' = {}
          /\ failure' = Some("no such directory")
          /\ viz_pc' = "handling"
          /\ UNCHANGED content
    /\ UNCHANGED <<pc, text, result, extractions, colored, simple, grouped, stats>>
    /\ UNCHANGED appvars
    /\ UNCHANGED <<save_error, viz_error, html_content, rmtree>>

\* lines 141-157: an empty file is an error; lx.visualize renders the file
\* or raises
Visualize ==
    /\ viz_pc = "visualizing"
    /\ \/ /\ content = EmptyContent
          /\ failure' = Some("file is empty")
          /\ viz_pc' = "handling"
          /\ UNCHANGED html_content
       \/ /\ content # EmptyContent
          /\ html_content' = Some(content)
          /\ viz_pc' = "returning"
          /\ UNCHANGED failure
       \/ /\ content # EmptyContent
          /\ \E message \in VisualizeErrors : failure' = Some(message)
          /\ viz_pc' = "handling"
          /\ UNCHANGED html_content
    /\ UNCHANGED <<pc, text, result, extractions, colored, simple, grouped, stats>>
    /\ UNCHANGED appvars
    /\ UNCHANGED <<temp_dir, files, output_path, content, save_error,
                   viz_error, rmtree>>

\* lines 159-170: the outer handler builds the message; the directory is
\* listed when it exists, unless it disappears before it is listed
HandleFailure ==
    /\ viz_pc = "handling"
    /\ \/ /\ viz_error' = FailureMessage(Val(failure), temp_dir = "exists", files)
          /\ UNCHANGED <<temp_dir, files>>
       \/ /\ temp_dir = "exists"
          /\ temp_dir' = "gone"
          /\ files' = {}
          /\ viz_error' = FailureMessage(Val(failure), FALSE, {})
    /\ viz_pc' = "raising"
    /\ UNCHANGED <<pc, text, result, extractions, colored, simple, grouped, stats>>
    /\ UNCHANGED appvars
    /\ UNCHANGED <<output_path, content, save_error, failure, html_content,
                   rmtree>>

\* Removes for a removal at the end of the try block instead of in finally
RemovesOnReturnOnly(position, dir) == position = "returning" /\ dir = "exists"

\* line 174, reached from the return and from the raise: whether rmtree is
\* called
Removes(position, dir) == dir = "exists"

\* lines 172-178: the finally clause removes the directory when it exists;
\* an error of rmtree is ignored and leaves the directory
Cleanup ==
    /\ viz_pc \in {"returning", "raising"}
    /\ viz_pc' = IF viz_pc = "returning" THEN "returned" ELSE "raised"
    /\ IF Removes(viz_pc, temp_dir)
       THEN \/ /\ temp_dir' = "removed"
               /\ files' = {}
               /\ rmtree' = "done"
            \/ /\ rmtree' = "failed"
               /\ UNCHANGED <<temp_dir, files>>
       ELSE UNCHANGED <<temp_dir, files, rmtree>>
    /\ UNCHANGED <<pc, text, result, extractions, colored, simple, grouped, stats>>
    /\ UNCHANGED appvars
    /\ UNCHANGED <<output_path, content, save_error, failure, viz_error, html_content>>

NextViz ==
    \/ CallGenerateVisualization
    \/ SaveAnnotatedDocuments
    \/ WriteManually
    \/ Visualize
    \/ HandleFailure
    \/ Cleanup

SpecViz == Init /\ [][NextViz]_vars

\* ------------------------------------------------------ the application
\* line 162: the secret store is consulted when the environment variable is
\* absent or empty; a missing secrets file is ignored
SecretConsulted(env) == ~Truthy(env)

\* the credential after lines 159-167
\* ResolvedKey preferring the secret store to the environment variable
ResolvedKeySecretsFirst(env, store) ==
    IF store.file /\ HasKey(store.entries, "LANGEXTRACT_API_KEY")
    THEN Some(Get(store.entries, "LANGEXTRACT_API_KEY"))
    ELSE env

ResolvedKey(env, store) ==
    IF Truthy(env) THEN env
    ELSE IF store.file /\ HasKey(store.entries, "LANGEXTRACT_API_KEY")
         THEN Some(Get(store.entries, "LANGEXTRACT_API_KEY"))
         ELSE env

\* a run of the script starts in some environment
InitApp ==
    /\ pc = "start"
    /\ text = <<>>
    /\ result = NoResult
    /\ extractions = <<>>
    /\ colored = NoColored
    /\ simple = NoSimple
    /\ grouped = NoGrouped
    /\ stats = NoStats
    /\ env_key \in EnvValues
    /\ secrets \in SecretStores
    /\ api_key = None
    /\ secret_read = FALSE
    /\ analyzer = NoAnalyzer
    /\ action = None
    /\ calls = 0
    /\ service_error = None
    /\ error = <<>>
    /\ shown_error = <<>>
    /\ viz_pc = "idle"
    /\ temp_dir = "none"
    /\ files = {}
    /\ output_path = None
    /\ content = NoContent
    /\ save_error = None
    /\ failure = None
    /\ viz_error = NoVizError
    /\ html_content = None
    /\ rmtree = "not called"

\* lines 159-171: resolve the credential, stop the run without one
ResolveApiKey ==
    /\ pc = "start"
    /\ api_key' = ResolvedKey(env_key, secrets)
    /\ secret_read' = SecretConsulted(env_key)
    /\ pc' = IF Truthy(api_key') THEN "keyed" ELSE "halted"
    /\ shown_error' = IF Truthy(api_key') THEN shown_error ELSE <<"no API key">>
    /\ UNCHANGED <<text, result, extractions, colored, simple, grouped, stats,
                   env_key, secrets, analyzer, action, calls, service_error,
                   error>>
    /\ UNCHANGED vizvars

\* lines 177-181: construct the analyzer, stop the run when that raises
ConstructAnalyzer ==
    /\ pc = "keyed"
    /\ analyzer' = GrammarAnalyzer(api_key, env_key)
    /\ pc' = IF analyzer'.error THEN "halted" ELSE "ready"
    /\ shown_error' = IF analyzer'.error THEN <<"initialisation failed">> ELSE shown_error
    /\ UNCHANGED <<text, result, extractions, colored, simple, grouped, stats,
                   env_key, secrets, api_key, secret_read, action, calls,
                   service_error, error>>
    /\ UNCHANGED vizvars

\* GrammarAnalyzer(api_key=key) constructed by a caller other than the
\* script, with or without a key
ConstructDirectly ==
    /\ pc = "start"
    /\ \E key \in EnvValues :
        /\ api_key' = key
        /\ analyzer' = GrammarAnalyzer(key, env_key)
    /\ pc' = "constructed"
    /\ UNCHANGED <<text, result, extractions, colored, simple, grouped, stats,
                   env_key, secrets, secret_read, action, calls,
                   service_error, error, shown_error>>
    /\ UNCHANGED vizvars

\* Triggered looking at the button only
TriggeredByButton(a, t) == ~IsNone(a)

\* line 236: if action and user_text
Triggered(a, t) == ~IsNone(a) /\ t # <<>>

\* lines 186-236: the text area and the two buttons; the analysis block is
\* entered only with a pressed button and a non-empty text
Interact ==
    /\ pc = "ready"
    /\ \E a \in {None, Some("grammar"), Some("keyword")}, t \in Texts :
        /\ action' = a
        /\ text' = t
        /\ pc' = IF Triggered(a, t) THEN "calling" ELSE "done"
    /\ UNCHANGED <<result, extractions, colored, simple, grouped, stats,
                   env_key, secrets, api_key, secret_read, analyzer, calls,
                   service_error, error, shown_error>>
    /\ UNCHANGED vizvars

\* lines 292-293: the message st.error shows for a caught exception, its
\* prefix written "failed: "
ShownFailure(message) == <<"failed: ">> \o message

\* analyzer.analyze_grammar(text, prompt, examples): one call of the
\* service, whose document is returned and whose error is wrapped; the
\* script catches the raised exception and shows its message
CallAnalyzeGrammar ==
    /\ pc = "calling"
    /\ calls' = calls + 1
    /\ \/ /\ \E n \in 0..1 : \E f \in [1..n -> ReportExtractions] :
                result' = [text |-> text, extractions |-> f]
           /\ pc' = "analyzed"
           /\ UNCHANGED <<service_error, error, shown_error>>
       \/ /\ \E message \in ServiceErrors :
                /\ service_error' = Some(message)
                /\ error' = AnalyzeFailure(message)
           /\ shown_error' = ShownFailure(error')
           /\ pc' = "failed"
           /\ UNCHANGED result
    /\ UNCHANGED <<text, extractions, colored, simple, grouped, stats,
                   env_key, secrets, api_key, secret_read, analyzer, action>>
    /\ UNCHANGED vizvars

\* line 272: grouped = format_result_for_display(extractions, group_by class)
DisplayGroups ==
    /\ pc = "colored"
    /\ grouped' = format_result_for_display(extractions, "type")
    /\ pc' = "done"
    /\ UNCHANGED <<text, result, extractions, colored, simple, stats>>
    /\ UNCHANGED appvars
    /\ UNCHANGED vizvars

\* the next run of the script, in the same environment; the text area keeps
\* its content in the session state
Rerun ==
    /\ pc \in {"done", "failed", "halted"}
    /\ pc' = "start"
    /\ result' = NoResult
    /\ extractions' = <<>>
    /\ colored' = NoColored
    /\ grouped' = NoGrouped
    /\ api_key' = None
    /\ secret_read' = FALSE
    /\ analyzer' = NoAnalyzer
    /\ action' = None
    /\ calls' = 0
    /\ service_error' = None
    /\ error' = <<>>
    /\ shown_error' = <<>>
    /\ UNCHANGED <<text, simple, stats, env_key, secrets>>
    /\ UNCHANGED vizvars

NextApp ==
    \/ ResolveApiKey
    \/ ConstructAnalyzer
    \/ ConstructDirectly
    \/ Interact
    \/ CallAnalyzeGrammar
    \/ FormatExtractions
    \/ CreateColoredText
    \/ DisplayGroups
    \/ Rerun

SpecApp == InitApp /\ [][NextApp]_vars

\* ------------------------------------------- grouping and statistics runs
\* analyze_grammar returns a document for the report functions
AnalyzeReport ==
    /\ pc = "idle"
    /\ \E t \in Texts, n \in 0..MaxSpans :
        \E f \in [1..n -> ReportExtractions] :
            /\ text' = t
            /\ result' = [text |-> t, extractions |-> f]
    /\ pc' = "analyzed"
    /\ UNCHANGED <<extractions, colored, simple, grouped, stats>>
    /\ UNCHANGED appvars
    /\ UNCHANGED vizvars

\* grouped = format_result_for_display(extractions, group_by)
FormatResultForDisplay ==
    /\ pc = "formatted"
    /\ \E group_by \in GroupBys :
        grouped' = format_result_for_display(extractions, group_by)
    /\ pc' = "grouped"
    /\ UNCHANGED <<text, result, extractions, colored, simple, stats>>
    /\ UNCHANGED appvars
    /\ UNCHANGED vizvars

\* stats = analyzer.get_statistics(result)
GetStatistics ==
    /\ pc = "analyzed"
    /\ stats' = get_statistics(result)
    /\ pc' = "counted"
    /\ UNCHANGED <<text, result, extractions, colored, simple, grouped>>
    /\ UNCHANGED appvars
    /\ UNCHANGED vizvars

\* create_colored_text(text, extractions) once more on the same arguments
CreateColoredTextAgain ==
    /\ pc = "colored"
    /\ colored' = create_colored_text(text, extractions)
    /\ extractions' = ListAfterSorted(extractions)
    /\ pc' = "recolored"
    /\ UNCHANGED <<text, result, simple, grouped, stats>>
    /\ UNCHANGED appvars
    /\ UNCHANGED vizvars

\* create_simple_html_visualization(text, extractions) once more on the same
\* arguments; the set of the same classes is iterated in the same order
CreateSimpleHtmlVisualizationAgain ==
    /\ pc = "visualized"
    /\ simple' = create_simple_html_visualization(text, extractions, simple.legend)
    /\ extractions' = ListAfterSorted(extractions)
    /\ pc' = "revisualized"
    /\ UNCHANGED <<text, result, colored, grouped, stats>>
    /\ UNCHANGED appvars
    /\ UNCHANGED vizvars

NextReport ==
    \/ AnalyzeReport
    \/ FormatExtractions
    \/ FormatResultForDisplay
    \/ GetStatistics
    \/ CreateColoredText
    \/ CreateColoredTextAgain
    \/ CreateSimpleHtmlVisualization
    \/ CreateSimpleHtmlVisualizationAgain

SpecReport == Init /\ [][NextReport]_vars
\* ================================================================ claims
\* a span the specification calls valid: 0 <= start < end <= len(text)
SpanValid(t, e) ==
    /\ e.position.start # None
    /\ e.position.end # None
    /\ 0 <= e.position.start[1]
    /\ e.position.start[1] < e.position.end[1]
    /\ e.position.end[1] <= Len(t)

AllValid == \A i \in 1..Len(extractions) : SpanValid(text, extractions[i])
NoneValid == \A i \in 1..Len(extractions) : ~SpanValid(text, extractions[i])

IsSpan(p) == p.kind = "span"
IsRaw(tok) == tok[1] = "raw"

\* the highlighted fragments of a list of fragments, in output order
Highlights(parts) == SelectSeq(parts, IsSpan)

\* the base text of a returned string: its verbatim characters outside tooltips
BaseText(html) ==
    LET raws == SelectSeq(html, IsRaw) IN [i \in 1..Len(raws) |-> raws[i][2]]

\* the base text of a list of fragments
BodyText(parts) == Concat([i \in 1..Len(parts) |-> parts[i].body])

\* text[from:to] for 0 <= from <= to <= len(text), character by character
Segment(from, to) == [k \in 1..(to - from) |-> text[from + k]]

\* C1: for every list of valid spans, overlapping ones included, the base
\* text of the fragments either renderer emits, concatenated in output
\* order, is the source text: nothing missing, nothing twice.
C1_BaseTextIsSource ==
    /\ (pc = "colored" /\ AllValid) => BaseText(colored.html) = text
    /\ (pc = "visualized" /\ AllValid /\ ~simple.error)
            => BodyText(simple.container) = text

\* C2: in create_colored_text every character position lies in at most one
\* highlighted fragment: a span starting inside a region an earlier span
\* covers adds no highlighted fragment for the covered characters.
C2_FirstSpanWins ==
    pc = "colored" =>
        LET hl == Highlights(colored.html_parts)
        IN  \A i, j \in 1..Len(hl) :
                i < j => (hl[i].to <= hl[j].from \/ hl[j].to <= hl[i].from)

\* C3: when the span list is empty or holds only invalid spans, each
\* renderer emits the whole source text as plain text exactly once and no
\* highlighted fragment; create_colored_text returns the source text.
C3_NoValidSpanGivesPlainText ==
    /\ (pc = "colored" /\ NoneValid) =>
            /\ colored.html = [i \in 1..Len(text) |-> <<"raw", text[i]>>]
            /\ Highlights(colored.html_parts) = <<>>
    /\ (pc = "visualized" /\ NoneValid) =>
            /\ ~simple.error
            /\ Len(simple.container) = 1
            /\ simple.container[1].kind = "plain"
            /\ simple.container[1].body = text
            /\ simple.details = <<>>

\* C3 witness: create_colored_text has rendered a non-empty text whose only
\* span reaches past the end of the text, so it passed the first filter.
C3_Witness ==
    /\ pc = "colored"
    /\ Len(text) > 0
    /\ Len(extractions) > 0
    /\ NoneValid
    /\ \E i \in 1..Len(extractions) :
        /\ extractions[i].position.start = Some(0)
        /\ extractions[i].position.end # None
        /\ extractions[i].position.end[1] > Len(text)

\* C6: the markup of either renderer holds no markup-significant character
\* of the source text in raw, unescaped form.
C6_SourceTextIsEscaped ==
    /\ pc = "colored" =>
        \A i \in 1..Len(colored.html) :
            IsRaw(colored.html[i]) => colored.html[i][2] \notin MarkupChars
    /\ pc = "visualized" =>
        \A i \in 1..Len(simple.container) :
            \A k \in 1..Len(simple.container[i].body) :
                simple.container[i].body[k] \notin MarkupChars
\* every span is valid and no two spans share a character
PairwiseDisjoint ==
    /\ AllValid
    /\ \A i, j \in 1..Len(extractions) :
        i < j => \/ extractions[i].position.end[1] <= extractions[j].position.start[1]
                 \/ extractions[j].position.end[1] <= extractions[i].position.start[1]

\* the fragment p is the highlighted run of the extraction e
RunOf(p, e) ==
    /\ p.kind = "span"
    /\ p.from = e.position.start[1]
    /\ p.to = e.position.end[1]
    /\ p.type = e.type

\* C4: for pairwise-disjoint valid spans create_colored_text emits one
\* highlighted fragment per span, in ascending start order, each holding
\* text[start:end]; the plain fragments are exactly the non-empty gaps
\* before, between and after them, and no empty plain fragment is emitted.
C4_DisjointSpansOneRunEach ==
    (pc = "colored" /\ PairwiseDisjoint /\ Len(extractions) > 0) =>
        LET parts == colored.html_parts
            hl == Highlights(parts)
        IN  /\ Len(hl) = Len(extractions)
            /\ \A i \in 1..Len(extractions) :
                   \E k \in 1..Len(hl) : RunOf(hl[k], extractions[i])
            /\ \A k, l \in 1..Len(hl) : k < l => hl[k].from < hl[l].from
            /\ parts[1].from = 0
            /\ parts[Len(parts)].to = Len(text)
            /\ \A k \in 1..Len(parts) :
                /\ parts[k].from < parts[k].to
                /\ parts[k].body = Segment(parts[k].from, parts[k].to)
                /\ k < Len(parts) =>
                    /\ parts[k + 1].from = parts[k].to
                    /\ ~(parts[k].kind = "plain" /\ parts[k + 1].kind = "plain")

\* C4 witness: two disjoint spans, given in descending start order, with a
\* plain gap between them: a highlighted, a plain and a highlighted fragment.
C4_Witness ==
    /\ pc = "colored"
    /\ PairwiseDisjoint
    /\ Len(extractions) = 2
    /\ extractions[1].position.start[1] > extractions[2].position.end[1]
    /\ Len(colored.html_parts) = 3
    /\ colored.html_parts[2].kind = "plain"
    /\ colored.html_parts[3].type = extractions[1].type

\* C4 witness of the edge case: one span covering the whole text gives one
\* highlighted fragment and no plain fragment.
C4_WholeTextWitness ==
    /\ pc = "colored"
    /\ Len(text) > 0
    /\ Len(extractions) = 1
    /\ extractions[1].position = [start |-> Some(0), end |-> Some(Len(text))]
    /\ Len(colored.html_parts) = 1
    /\ colored.html_parts[1].kind = "span"

\* the extractions without the invalid ones
ValidOnly ==
    LET IsValid(e) == SpanValid(text, e) IN SelectSeq(extractions, IsValid)

\* C5: in both renderers only a span with valid offsets produces a
\* highlighted fragment; an invalid span is dropped, raises no error and
\* changes nothing in the output: the output is that of the valid spans alone.
C5_InvalidSpansChangeNothing ==
    /\ pc = "colored" =>
        /\ \A k \in 1..Len(colored.html_parts) :
               IsSpan(colored.html_parts[k]) =>
                   \E i \in 1..Len(extractions) :
                       /\ SpanValid(text, extractions[i])
                       /\ RunOf(colored.html_parts[k], extractions[i])
        /\ colored.html = create_colored_text(text, ValidOnly).html
    /\ pc = "visualized" =>
        \E order \in Orders(LegendTypes(ValidOnly)) :
            simple = create_simple_html_visualization(text, ValidOnly, order)

\* the indices of the valid spans
ValidIndices == {i \in 1..Len(extractions) : SpanValid(text, extractions[i])}

\* the place of the valid span i among the valid spans when they are ordered
\* by start offset and, for equal start offsets, by input position
Rank(i) ==
    1 + Cardinality({j \in ValidIndices :
            \/ extractions[j].position.start[1] < extractions[i].position.start[1]
            \/ /\ extractions[j].position.start[1] = extractions[i].position.start[1]
               /\ j < i})

\* the highlighted fragments hl are those of the valid spans, in rank order
InStableStartOrder(hl) ==
    /\ Len(hl) = Cardinality(ValidIndices)
    /\ \A i \in ValidIndices : RunOf(hl[Rank(i)], extractions[i])
    /\ \A k, l \in 1..Len(hl) : k < l => hl[k].from <= hl[l].from

\* C7: in the output of either renderer the highlighted fragments are
\* ordered by start offset, and those of spans with equal start offset keep
\* the relative order the spans had in the input.
C7_StableStartOrder ==
    /\ pc = "colored" => InStableStartOrder(Highlights(colored.html_parts))
    /\ (pc = "visualized" /\ ~simple.error)
            => InStableStartOrder(Highlights(simple.container))

\* C7 witness: two valid spans with the same start offset, the longer one
\* first in the input; its highlighted fragment comes first in the output.
C7_Witness ==
    /\ pc = "visualized"
    /\ ~simple.error
    /\ Len(extractions) = 2
    /\ AllValid
    /\ extractions[1].position.start = extractions[2].position.start
    /\ extractions[1].position.end[1] > extractions[2].position.end[1]
    /\ Len(Highlights(simple.container)) = 2
    /\ Highlights(simple.container)[1].type = extractions[1].type

\* the lines of the tooltip tt that carry the label
LinesOf(tt, label) == {k \in 2..Len(tt) : tt[k][1] = label}

\* the tooltip has a line with this label exactly when wanted holds, and the
\* line then carries the attribute's value
LineIff(tt, label, attrs, key, wanted) ==
    /\ (LinesOf(tt, label) # {}) <=> wanted
    /\ \A k \in LinesOf(tt, label) : tt[k][2] = Get(attrs, key)

LineOrder(label) ==
    IF label = "role-line" THEN 1 ELSE IF label = "meaning-line" THEN 2 ELSE 3

\* C8: in create_simple_html_visualization the tooltip of a highlighted
\* fragment is the class, then a role line iff attributes has 'role', a
\* meaning line iff it has 'meaning', and a type line iff it has 'type'
\* with a value other than the class tag, in this order and nothing else.
C8_SimpleTooltip ==
    (pc = "visualized" /\ ~simple.error) =>
        \A k \in 1..Len(simple.container) : \A i \in ValidIndices :
            RunOf(simple.container[k], extractions[i]) =>
                LET tt == simple.container[k].tooltip
                    e == extractions[i]
                    attrs == e.attributes[1]
                IN  /\ Len(tt) >= 1
                    /\ tt[1] = <<"class", e.type>>
                    /\ \A a \in 2..Len(tt) :
                        tt[a][1] \in {"role-line", "meaning-line", "type-line"}
                    /\ \A a, b \in 2..Len(tt) :
                        a < b => LineOrder(tt[a][1]) < LineOrder(tt[b][1])
                    /\ LineIff(tt, "role-line", attrs, "role", HasKey(attrs, "role"))
                    /\ LineIff(tt, "meaning-line", attrs, "meaning", HasKey(attrs, "meaning"))
                    /\ LineIff(tt, "type-line", attrs, "type",
                           HasKey(attrs, "type") /\ Get(attrs, "type") # e.type)

\* C8 witness: a highlighted fragment whose attributes hold a type equal to
\* the class tag, a role and a level; its tooltip is the class and the role.
C8_Witness ==
    /\ pc = "visualized"
    /\ ~simple.error
    /\ Len(extractions) = 1
    /\ extractions[1].attributes # None
    /\ HasKey(extractions[1].attributes[1], "type")
    /\ Get(extractions[1].attributes[1], "type") = extractions[1].type
    /\ HasKey(extractions[1].attributes[1], "role")
    /\ HasKey(extractions[1].attributes[1], "level")
    /\ Len(Highlights(simple.container)) = 1
    /\ Len(Highlights(simple.container)[1].tooltip) = 2

\* the lines of a create_colored_text tooltip that show the attribute key
DivLines(tt, key) == {k \in 1..Len(tt) : tt[k][1] = "div" /\ tt[k][2] = key}

C10_FormatExtractions ==
    pc \in {"formatted", "colored", "visualized"} =>
        /\ Len(extractions) = Len(result.extractions)
        /\ \A i \in 1..Len(extractions) :
            LET raw == result.extractions[i]
                rec == extractions[i]
            IN  /\ rec.type = raw.extraction_class
                /\ rec.text = raw.extraction_text
                /\ rec.attributes = raw.attributes
                /\ raw.char_interval = None =>
                       rec.position = [start |-> <<0>>, end |-> <<0>>]
                /\ raw.char_interval # None =>
                       /\ rec.position.start = raw.char_interval[1].start_pos
                       /\ rec.position.end = raw.char_interval[1].end_pos

\* C10 witness: a document whose first extraction has no character interval
\* and whose second one has offsets was normalized.
C10_Witness ==
    /\ pc = "formatted"
    /\ Len(extractions) = 2
    /\ result.extractions[1].char_interval = None
    /\ extractions[1].position = [start |-> <<0>>, end |-> <<0>>]
    /\ result.extractions[2].char_interval # None
    /\ extractions[2].position.end # None
    /\ extractions[2].position.end[1] > 0

\* -------------------------------------------------- grouping (C11, C12)
\* the extractions of es with the given key, in input order
WithKey(es, key, group_by) ==
    SelectSeq(es, LAMBDA e : GroupKey(e, group_by) = key)

\* every extraction is in exactly the group of its key, the groups keep the
\* input order, no group is empty and no key appears twice
GroupsPartition(g, es, group_by) ==
    /\ \A k \in 1..Len(g) :
        /\ g[k].items # <<>>
        /\ g[k].items = WithKey(es, g[k].key, group_by)
        /\ \A j \in 1..Len(g) : g[j].key = g[k].key => j = k
    /\ \A i \in 1..Len(es) :
        \E k \in 1..Len(g) : g[k].key = GroupKey(es[i], group_by)

\* C11: grouping by class puts every span in exactly one group, the group of
\* its class; the groups keep the input order of their spans, no span is
\* dropped or duplicated and no group is empty.
C11_GroupByClass ==
    (pc = "grouped" /\ grouped.by = "type") =>
        /\ ~grouped.error
        /\ GroupsPartition(grouped.groups, extractions, "type")
        /\ \A k \in 1..Len(grouped.groups) :
            \A i \in 1..Len(grouped.groups[k].items) :
                grouped.groups[k].items[i].type = grouped.groups[k].key

\* two different spans of one class, grouped by class
C11_Witness ==
    /\ pc = "grouped"
    /\ grouped.by = "type"
    /\ Len(extractions) = 2
    /\ extractions[1].type = extractions[2].type
    /\ extractions[1] # extractions[2]
    /\ Len(grouped.groups) = 1

\* C12: grouping by level completes for every list of normalized spans and
\* puts each span under its 'level' attribute, a span without one in the
\* single "unknown" bucket, with no span dropped.
C12_GroupByLevelCompletes ==
    (pc = "grouped" /\ grouped.by = "level") =>
        /\ ~grouped.error
        /\ GroupsPartition(grouped.groups, extractions, "level")

\* ------------------------------------------------ statistics (C13 - C16)
\* the offsets of an extraction of the document are valid for the text
RawValid(e, t) ==
    /\ ~IsNone(e.char_interval)
    /\ ~IsNone(Val(e.char_interval).start_pos)
    /\ ~IsNone(Val(e.char_interval).end_pos)
    /\ 0 <= Val(Val(e.char_interval).start_pos)
    /\ Val(Val(e.char_interval).start_pos) < Val(Val(e.char_interval).end_pos)
    /\ Val(Val(e.char_interval).end_pos) <= Len(t)

\* the length of an extraction with valid offsets
RawLength(e) ==
    Val(Val(e.char_interval).end_pos) - Val(Val(e.char_interval).start_pos)

\* the sum of the lengths of the first n extractions that have valid offsets
RECURSIVE ValidSum(_, _)
ValidSum(res, n) ==
    IF n = 0 THEN 0
    ELSE ValidSum(res, n - 1)
         + (IF RawValid(res.extractions[n], res.text)
            THEN RawLength(res.extractions[n]) ELSE 0)

\* C13: the coverage numerator is the sum of (end - start) over exactly the
\* spans with valid offsets; a span with missing offsets, with end < start or
\* with offsets outside the text contributes nothing.
C13_NumeratorCountsValidSpansOnly ==
    pc = "counted" =>
        /\ ~stats.error
        /\ stats.total_chars = ValidSum(result, Len(result.extractions))

\* the natural number written by a sequence of digits, -1 when it is none
DigitValue(c) ==
    IF \E d \in 0..9 : DigitChar(d) = c
    THEN CHOOSE d \in 0..9 : DigitChar(d) = c ELSE -1

RECURSIVE ParseNat(_)
ParseNat(cs) ==
    IF cs = <<>> THEN -1
    ELSE IF Len(cs) = 1 THEN DigitValue(cs[1])
    ELSE IF ParseNat(SubSeq(cs, 1, Len(cs) - 1)) < 0 \/ DigitValue(cs[Len(cs)]) < 0
         THEN -1
         ELSE 10 * ParseNat(SubSeq(cs, 1, Len(cs) - 1)) + DigitValue(cs[Len(cs)])

\* c reads as digits, a point, one digit and a percent sign, with a minus
\* sign in front exactly for a negative value, and is the value
\* total / length * 100 to the nearest tenth
ReadsAsPercentage(c, total, length) ==
    LET body == IF total < 0 THEN SubSeq(c, 2, Len(c)) ELSE c
        n == Len(body)
    IN  /\ total < 0 => (c # <<>> /\ c[1] = "-")
        /\ n >= 4
        /\ body[n] = "%"
        /\ body[n - 2] = "."
        /\ DigitValue(body[n - 1]) >= 0
        /\ ParseNat(SubSeq(body, 1, n - 3)) >= 0
        /\ LET tenths == 10 * ParseNat(SubSeq(body, 1, n - 3))
                         + DigitValue(body[n - 1])
           IN  2 * Abs(tenths * length - Abs(total) * 1000) <= length

\* C14: the coverage is numerator / len(text) * 100 with exactly one decimal
\* and a percent sign, and "0%" for a text of length zero, whatever the spans
\* are.
C14_CoverageFormat ==
    pc = "counted" =>
        /\ ~stats.error
        /\ Len(result.text) = 0 => stats.coverage = <<"0", "%">>
        /\ Len(result.text) > 0 =>
            ReadsAsPercentage(stats.coverage, stats.total_chars,
                              Len(result.text))

\* all extractions of the document have valid offsets
AllRawValid(res) ==
    \A i \in 1..Len(res.extractions) : RawValid(res.extractions[i], res.text)

\* the number of extractions of the document that cover position p
Covering(res, p) ==
    Cardinality({i \in 1..Len(res.extractions) :
        /\ Val(Val(res.extractions[i].char_interval).start_pos) <= p
        /\ p < Val(Val(res.extractions[i].char_interval).end_pos)})

\* the sum of Covering over the positions below n
RECURSIVE CoveringSum(_, _)
CoveringSum(res, n) ==
    IF n = 0 THEN 0 ELSE CoveringSum(res, n - 1) + Covering(res, n - 1)

\* C15: overlapping spans are not deduplicated: with valid spans every
\* position of the text counts once for each span that covers it, so two
\* identical spans count twice.
C15_OverlapsCountInFull ==
    (pc = "counted" /\ AllRawValid(result)) =>
        /\ ~stats.error
        /\ stats.total_chars = CoveringSum(result, Len(result.text))

\* two identical valid spans of length 2 over a text of length 3: the
\* numerator is 4 and the coverage exceeds 100%
C15_Witness ==
    /\ pc = "counted"
    /\ Len(result.text) = 3
    /\ Len(result.extractions) = 2
    /\ AllRawValid(result)
    /\ result.extractions[1].char_interval = result.extractions[2].char_interval
    /\ stats.total_chars = 4
    /\ stats.coverage = <<"1", "3", "3", ".", "3", "%">>

\* the number of extractions of the document with the given class
ClassCount(res, cls) ==
    Cardinality({i \in 1..Len(res.extractions) :
        res.extractions[i].extraction_class = cls})

\* the sum of the counts of the first n entries
RECURSIVE CountSum(_, _)
CountSum(type_counts, n) ==
    IF n = 0 THEN 0 ELSE CountSum(type_counts, n - 1) + type_counts[n][2]

\* C16: the total count is the number of extractions, valid offsets or not;
\* the count of a class is the number of extractions of that class; the
\* counts sum to the total and no class has count zero.
C16_Counts ==
    pc = "counted" =>
        /\ ~stats.error
        /\ stats.total = Len(result.extractions)
        /\ \A k \in 1..Len(stats.type_counts) :
            /\ stats.type_counts[k][2] > 0
            /\ stats.type_counts[k][2] = ClassCount(result, stats.type_counts[k][1])
            /\ \A j \in 1..Len(stats.type_counts) :
                stats.type_counts[j][1] = stats.type_counts[k][1] => j = k
        /\ \A i \in 1..Len(result.extractions) :
            HasKey(stats.type_counts, result.extractions[i].extraction_class)
        /\ CountSum(stats.type_counts, Len(stats.type_counts)) = stats.total

\* ----------------------------------------- service and credential (C17, C18)
\* C17: an invocation of analyze_grammar calls the service exactly once and
\* never again, and when the call fails the raised message contains the
\* message of the original error.
C17_OneCallErrorWrapped ==
    /\ calls <= 1
    /\ pc \in {"analyzed", "formatted", "colored", "failed"} => calls = 1
    /\ pc = "failed" =>
        /\ ~IsNone(service_error)
        /\ \E i \in 1..Len(error) : error[i] = Val(service_error)

\* the service failed with "timeout" on its only call
C17_Witness ==
    /\ pc = "failed"
    /\ calls = 1
    /\ service_error = Some("timeout")
    /\ error # <<>>

\* the script is past the credential check
Resolved == pc \notin {"start", "constructed"}

\* the secret store holds a usable key
SecretKey(store) ==
    /\ store.file
    /\ HasKey(store.entries, "LANGEXTRACT_API_KEY")
    /\ Get(store.entries, "LANGEXTRACT_API_KEY") # ""

\* C18: the credential is the environment variable when that is set, the
\* secret store is consulted only when it is absent or empty; without a
\* credential from either the run halts with no analyzer constructed and no
\* service call; the constructor raises exactly when it is given no key and
\* the environment has none.
C18_Credential ==
    /\ secret_read => ~Truthy(env_key)
    /\ Resolved =>
        /\ Truthy(env_key) => (api_key = env_key /\ ~secret_read)
        /\ ~Truthy(env_key) => secret_read
        /\ (~Truthy(env_key) /\ ~SecretKey(secrets)) =>
            (pc = "halted" /\ analyzer = NoAnalyzer /\ calls = 0)
        /\ (pc \notin {"keyed", "halted"}) =>
            (~analyzer.error /\ Truthy(analyzer.api_key))
        /\ calls > 0 => Truthy(analyzer.api_key)
    /\ pc = "constructed" =>
        (analyzer.error <=> (~Truthy(api_key) /\ ~Truthy(env_key)))

\* the environment variable is empty and the secrets file has no key: the
\* store was consulted and the run halted without an analyzer
C18_Witness ==
    /\ pc = "halted"
    /\ env_key = Some("")
    /\ secrets = [file |-> TRUE, entries |-> <<>>]
    /\ secret_read
    /\ analyzer = NoAnalyzer
    /\ calls = 0

AnalyzeClasses ==
    /\ pc = "idle"
    /\ \E t \in Texts, n \in 0..MaxSpans :
        \E f \in [1..n -> {"verb", "phrasal_verb", "note"}] :
            /\ text' = t
            /\ result' =
                [text |-> t,
                 extractions |-> [i \in 1..n |->
                    Extraction(f[i], "looked", Some(<<>>),
                        Some([start_pos |-> Some(0), end_pos |-> Some(1)]))]]
    /\ pc' = "analyzed"
    /\ UNCHANGED <<extractions, colored, simple, grouped, stats>>
    /\ UNCHANGED appvars
    /\ UNCHANGED vizvars

\* create_simple_html_visualization(text, extractions) on the same arguments
\* in another run of the interpreter: the hashes of the class strings, and
\* with them the order in which the set used_types is iterated, are those of
\* that run
CreateSimpleHtmlVisualizationInNewRun ==
    /\ pc = "visualized"
    /\ \E order \in Orders(LegendTypes(extractions)) :
        simple' = create_simple_html_visualization(text, extractions, order)
    /\ extractions' = ListAfterSorted(extractions)
    /\ pc' = "visualized anew"
    /\ UNCHANGED <<text, result, colored, grouped, stats>>
    /\ UNCHANGED appvars
    /\ UNCHANGED vizvars

NextRuns ==
    \/ AnalyzeClasses
    \/ FormatExtractions
    \/ CreateColoredText
    \/ CreateColoredTextAgain
    \/ CreateSimpleHtmlVisualization
    \/ CreateSimpleHtmlVisualizationInNewRun

SpecRuns == Init /\ [][NextRuns]_vars

\* ------------------------------------------ non-destructive projection (C20)
\* a step of one of the renderers, of the grouping or of the statistics
ProjectionStep ==
    \/ pc = "formatted" /\ pc' \in {"colored", "visualized", "grouped"}
    \/ pc = "colored" /\ pc' = "recolored"
    \/ pc = "visualized" /\ pc' = "revisualized"
    \/ pc = "analyzed" /\ pc' = "counted"

C21_Deterministic ==
    [][/\ pc' = "recolored" => colored' = colored
       /\ pc' = "visualized anew" => simple' = simple]_vars

\* ------------------------------------------------- the cursor (C22)
\* C22: in create_simple_html_visualization the cursor never moves backwards:
\* the text emitted after a span starts at or after the largest end offset
\* of the spans before it, also when a span is nested in an earlier one.
C22_SimpleCursorNeverMovesBack ==
    (pc = "visualized" /\ ~simple.error) =>
        \A k \in 1..Len(simple.container) :
            simple.container[k].kind = "plain" =>
                \A j \in 1..(k - 1) :
                    simple.container[j].kind = "span" =>
                        simple.container[k].from >= simple.container[j].to

\* ------------------------------------------------- one interaction (C23)
\* C23: in one run of the script the service is called at most once, and
\* only with a pressed button and a non-empty text; markup and groups exist
\* only after the call and the normalization returned, the markup first; when
\* the call failed nothing is rendered and an error message is shown_error.
C23_OneCallThenRender ==
    /\ calls <= 1
    /\ calls = 1 => (~IsNone(action) /\ text # <<>>)
    /\ (colored # NoColored \/ grouped # NoGrouped) =>
        /\ calls = 1
        /\ IsNone(service_error)
        /\ shown_error = <<>>
        /\ result.text = text
        /\ extractions = format_extractions(result)
        /\ colored # NoColored
    /\ ~IsNone(service_error) =>
        /\ pc = "failed"
        /\ colored = NoColored
        /\ grouped = NoGrouped
        /\ shown_error # <<>>
        /\ \E i \in 1..Len(shown_error) : shown_error[i] = Val(service_error)

\* a button was pressed with a text, the one call returned a span, the
\* markup and then the groups were made
C23_Witness ==
    /\ pc = "done"
    /\ calls = 1
    /\ action = Some("keyword")
    /\ Len(extractions) = 1
    /\ colored.html_parts # <<>>
    /\ Len(grouped.groups) = 1

\* ----------------------------------------- the temporary directory (C24)
\* C24: on every exit of generate_visualization, by return or by raise, the
\* removal of the temporary directory it created was attempted, so the
\* directory remains only when the removal failed; the directory is listed
\* for the message before the removal, and the returned markup is held
\* whatever became of the directory.
C24_TempDirRemoved ==
    /\ viz_pc \in {"returned", "raised"} =>
        /\ temp_dir = "exists" => rmtree = "failed"
        /\ temp_dir = "removed" <=> rmtree = "done"
    /\ rmtree # "not called" => viz_pc \in {"returned", "raised"}
    /\ ~IsNone(viz_error.listing) =>
        \/ viz_pc = "raising" /\ temp_dir = "exists" /\ rmtree = "not called"
        \/ viz_pc = "raised" /\ rmtree # "not called"
    /\ viz_pc = "returned" =>
        /\ html_content = Some(content)
        /\ content.by \in {"library", "manual"}
        /\ content.doc.text = result.text

\* the renderer failed after the fallback: the message carries the listing
\* and the directory was removed afterwards
C24_Witness ==
    /\ viz_pc = "raised"
    /\ ~IsNone(save_error)
    /\ viz_error.listing = Some({"grammar_analysis.jsonl"})
    /\ temp_dir = "removed"
    /\ rmtree = "done"

\* ------------------------------------- tooltips of create_colored_text (C25)
\* the attribute lines of a create_colored_text tooltip, in output order
AttributeLines(tt) == SelectSeq(tt, LAMBDA line : line[1] = "div")

\* C25: create_colored_text emits the highlighted fragment of a valid span
\* whatever its attributes are; without attributes, or with an empty mapping,
\* the tooltip holds the class label only; with a non-empty mapping it holds
\* the class label followed by one line per attribute in the mapping's order.
C25_ColoredTooltipAttributes ==
    pc = "colored" =>
        /\ \A i \in ValidIndices :
            \E k \in 1..Len(colored.html_parts) :
                RunOf(colored.html_parts[k], extractions[i])
        /\ \A k \in 1..Len(colored.html_parts) : \A i \in ValidIndices :
            RunOf(colored.html_parts[k], extractions[i]) =>
                LET tt == colored.html_parts[k].tooltip
                    e == extractions[i]
                    attrs == IF e.attributes = None THEN <<>> ELSE e.attributes[1]
                IN  /\ Len(tt) >= 1
                    /\ tt[1] = <<"strong", e.type>>
                    /\ attrs = <<>> => Len(tt) = 1
                    /\ attrs # <<>> =>
                        /\ Len(tt) = Len(attrs) + 2
                        /\ tt[2] = <<"hr">>
                        /\ Len(AttributeLines(tt)) = Len(attrs)
                        /\ \A a \in 1..Len(attrs) :
                            AttributeLines(tt)[a]
                                = <<"div", attrs[a][1], attrs[a][2]>>

\* a valid span without attributes was rendered: one highlighted fragment
\* whose tooltip is the class label
C25_Witness ==
    /\ pc = "colored"
    /\ Len(extractions) = 1
    /\ extractions[1].attributes = None
    /\ Len(Highlights(colored.html_parts)) = 1
    /\ Highlights(colored.html_parts)[1].tooltip
        = <<<<"strong", extractions[1].type>>>>

====
